---- MODULE Spec2Model ----
(***************************************************************************)
(* A model of pushbullet_cli/app.py: one invocation of main() after        *)
(* another in the same environment (credential file, account, shell        *)
(* umask, interpreter).  Strings the program inspects character by         *)
(* character (strip, int, URL_RE, join) are sequences of one-character     *)
(* strings; device nicknames, only ever compared for equality, are atoms.  *)
(***************************************************************************)
EXTENDS Integers, Sequences, FiniteSets, TLC

\* ---------------------------------------------------------------- bounds
\* Invocations of main() in one behaviour.
MaxRuns == 2
\* The count of rejected answers to "Push to which device?" saturates here.
MaxAttempts == 2

\* ------------------------------------------------------------- constants
\* os.umask(0o77)
PRIVATE_MASK == 63
\* the creation mode of open(KEY_PATH, "w"): 0o666, cut by the umask
OPEN_CREATE_MODE == 438
\* Python's None, and a present value of a type that is not a record.
None == [none |-> TRUE]
Some(x) == [val |-> x]

\* ------------------------------------------------------- pure functions
WHITESPACE == {" ", "\t", "\n", "\r"}
DIGITS == <<"0", "1", "2", "3", "4", "5", "6", "7", "8", "9">>
LETTERS ==
    {"a","b","c","d","e","f","g","h","i","j","k","l","m",
     "n","o","p","q","r","s","t","u","v","w","x","y","z",
     "A","B","C","D","E","F","G","H","I","J","K","L","M",
     "N","O","P","Q","R","S","T","U","V","W","X","Y","Z"}

RECURSIVE lstrip(_)
lstrip(s) ==
    IF s /= << >> /\ Head(s) \in WHITESPACE THEN lstrip(Tail(s)) ELSE s

RECURSIVE rstrip(_)
rstrip(s) ==
    IF s /= << >> /\ s[Len(s)] \in WHITESPACE
    THEN rstrip(SubSeq(s, 1, Len(s) - 1))
    ELSE s

\* str.strip()
strip(s) == rstrip(lstrip(s))

IsDigit(c) == \E d \in 1..10 : DIGITS[d] = c
DigitVal(c) == (CHOOSE d \in 1..10 : DIGITS[d] = c) - 1

RECURSIVE DecimalValue(_)
DecimalValue(s) ==
    IF s = << >> THEN 0
    ELSE 10 * DecimalValue(SubSeq(s, 1, Len(s) - 1)) + DigitVal(s[Len(s)])

\* int(text): surrounding whitespace, an optional sign, one or more digits;
\* anything else is a ValueError.
int(text) ==
    LET t == strip(text)
        signed == t /= << >> /\ Head(t) \in {"+", "-"}
        body == IF signed THEN Tail(t) ELSE t
    IN  IF body /= << >> /\ \A i \in 1..Len(body) : IsDigit(body[i])
        THEN [ok |-> TRUE,
              value |-> IF signed /\ Head(t) = "-"
                        THEN 0 - DecimalValue(body)
                        ELSE DecimalValue(body)]
        ELSE [ok |-> FALSE, value |-> 0]

\* URL_RE.search(s) for URL_RE = ^[a-zA-Z]+://.+$ : one or more letters,
\* "://", then one or more characters other than a newline, up to the end of
\* the string or to a newline that ends the string.
URL_RE_search(s) ==
    \E k \in 1..Len(s) :
        /\ \A i \in 1..k : s[i] \in LETTERS
        /\ Len(s) >= k + 4
        /\ SubSeq(s, k + 1, k + 3) = <<":", "/", "/">>
        /\ LET rest == SubSeq(s, k + 4, Len(s))
               line == IF rest[Len(rest)] = "\n"
                       THEN SubSeq(rest, 1, Len(rest) - 1)
                       ELSE rest
           IN  /\ line /= << >>
               /\ \A i \in 1..Len(line) : line[i] /= "\n"

\* " ".join(words)
RECURSIVE join(_)
join(words) ==
    IF words = << >> THEN << >>
    ELSE IF Len(words) = 1 THEN words[1]
    ELSE words[1] \o <<" ">> \o join(Tail(words))

\* a & b on the nine permission bits
RECURSIVE BitAnd(_, _, _)
BitAnd(a, b, n) ==
    IF n = 0 THEN 0
    ELSE 2 * BitAnd(a \div 2, b \div 2, n - 1) + ((a % 2) * (b % 2))

\* the mode of a file created under a umask: mode & ~mask
CreatedMode(mask) == BitAnd(OPEN_CREATE_MODE, 511 - mask, 9)

\* ---------------------------------------------------------- the inputs
hi == <<"h", "i">>
hello == <<"h", "e", "l", "l", "o">>
world == <<"w", "o", "r", "l", "d">>
example_url ==
    <<"h","t","t","p",":","/","/","e","x","a","m","p","l","e",".","c","o","m">>
\* a regular file whose name has the shape of a URL
url_named_file == <<"f", ":", "/", "/", "x">>
notes_file == <<"n", ".", "t", "x", "t">>
\* letters and "://" followed by nothing but a line break
url_then_newline == <<"a", ":", "/", "/", "\n">>
Note == <<"N", "o", "t", "e">>

\* os.path.isfile holds of these paths
ExistingFiles == {url_named_file, notes_file}

\* the message words of a command line
MsgChoices ==
    {<< >>, <<hi>>, <<hello, world>>, <<example_url>>, <<url_named_file>>,
     <<notes_file>>, <<url_then_newline>>}

\* what standard input holds when no message word is given
StdinChoices == {hi, example_url, notes_file}

\* the lines typed at the API key prompt
KeyLines == {<<" ", "A", "B", "C", "1", "2", "3", "\n">>, <<"k", "9">>}

\* a credential file left by an earlier installation: read back untrimmed
OldKeyFile == [content |-> <<"o", "l", "d", "\n">>, mode |-> 420]

\* the answers typed at "Push to which device?"
PromptInputs ==
    {<<"0">>, <<" ", "1", " ">>, <<"+", "1">>, <<"2">>, <<"-", "1">>,
     <<"x">>, <<"1", "x">>, << >>}

Phone == [iden |-> "dev1", nickname |-> "Phone"]
Tablet == [iden |-> "dev2", nickname |-> "Tablet"]
Phone2 == [iden |-> "dev3", nickname |-> "Phone"]

\* pb.devices of the account
DeviceLists == {<< >>, <<Phone, Tablet>>, <<Phone, Phone2>>}

\* the NAME of --device NAME
DeviceNames == {"Phone", "phone", ""}

\* the command lines: which options are given, and the message words
ArgvChoices ==
    [all : BOOLEAN, interactive : BOOLEAN,
     device : {None} \cup {Some(n) : n \in DeviceNames},
     msg : MsgChoices]

\* the umask the shell hands to the process
ShellUmasks == {18, 2}

\* ------------------------------------------------------------ the state
VARIABLES
    py2,          \* the interpreter: TRUE for Python 2, FALSE for Python 3
    umask0,       \* the umask the process starts with
    keyfile,      \* KEY_PATH: None, or its content and permission bits
    devices,      \* pb.devices
    runs,         \* invocations of main() started so far
    argv,         \* the command line of this invocation
    pc,           \* where main() stands
    args,         \* the result of _parse_args()
    umask,        \* the process-wide permission mask
    oldmask,      \* private_files: the mask saved on entry
    api_key,      \* _get_api_key: the key to return
    key_line,     \* the line read at the API key prompt of this invocation
    pending,      \* the exception travelling through private_files' finally
    pb,           \* the PushBullet client and the methods main() has wrapped
    device,       \* main: the resolved device
    arg,          \* main: the message
    data_type,    \* main: its classification
    file_data,    \* _push: what upload_file returned
    calls,        \* the remote calls issued, in order, with their results
    io,           \* the kinds of I/O this invocation has performed
    attempts,     \* rejected answers to the device prompt (saturating)
    prompted_key, \* the line typed at the prompt that created the credential
    exit,         \* how main() ended
    diag          \* what it printed or raised on the way out

env == <<py2, umask0, devices>>
run == <<argv, pc, args, oldmask, api_key, key_line, pending, pb, device, arg,
         data_type, file_data, calls, io, attempts, exit, diag>>
vars == <<env, run, runs, keyfile, umask, prompted_key>>

RunInit(a) ==
    /\ argv = a
    /\ pc = "parse"
    /\ args = None
    /\ oldmask = None
    /\ api_key = None
    /\ key_line = None
    /\ pending = None
    /\ pb = None
    /\ device = None
    /\ arg = None
    /\ data_type = None
    /\ file_data = None
    /\ calls = << >>
    /\ io = {}
    /\ attempts = 0
    /\ exit = None
    /\ diag = None

Init ==
    /\ py2 \in BOOLEAN
    /\ umask0 \in ShellUmasks
    /\ umask = umask0
    /\ keyfile \in {None, OldKeyFile}
    /\ devices \in DeviceLists
    /\ runs = 1
    /\ prompted_key = None
    /\ \E a \in ArgvChoices : RunInit(a)

\* ---------------------------------------------------- leaving main()
Return(status, d) ==
    /\ pc' = "done"
    /\ exit' = [how |-> "return", status |-> status]
    /\ diag' = d

Raise(e) ==
    /\ pc' = "done"
    /\ exit' = [how |-> "raise"]
    /\ diag' = e

Exception(type, at) == [kind |-> "exception", type |-> type, at |-> at]

\* ---------------------------------------------------------- _parse_args
\* the options of the mutually exclusive group
devgroup_without_device == {"all", "interactive"}
devgroup == {"all", "interactive", "device"}

\* the options of a command line that argparse sees as given
SeenOptions(a) ==
    (IF a.all THEN {"all"} ELSE {})
        \cup (IF a.interactive THEN {"interactive"} ELSE {})
        \cup (IF a.device /= None THEN {"device"} ELSE {})

\* parse_args(): an error when two options of the group are given, and
\* otherwise the namespace, with the defaults of the options not given
_parse_args(a) ==
    IF Cardinality(SeenOptions(a) \cap devgroup) >= 2
    THEN [ok |-> FALSE, args |-> None]
    ELSE [ok |-> TRUE,
          args |-> [msg |-> a.msg, all |-> a.all,
                    interactive |-> a.interactive, device |-> a.device]]

ParseArgs ==
    /\ pc = "parse"
    /\ LET r == _parse_args(argv)
       IN  IF r.ok
           THEN /\ args' = r.args
                /\ pc' = "get_api_key"
                /\ UNCHANGED <<exit, diag>>
           ELSE /\ pc' = "done"
                /\ exit' = [how |-> "SystemExit", status |-> 2]
                /\ diag' = [kind |-> "usage"]
                /\ UNCHANGED args
    /\ UNCHANGED <<env, runs, keyfile, umask, prompted_key, argv, oldmask,
                   api_key, key_line, pending, pb, device, arg, data_type,
                   file_data, calls, io, attempts>>

\* ---------------------------------------------------------- _get_api_key
\* the key made of the line read at the prompt
key_of_line_unstripped(line) == line
key_of_line(line) == strip(line)

\* the else branch: the file exists and is read back whole
GetApiKeyRead ==
    /\ pc = "get_api_key"
    /\ keyfile /= None
    /\ api_key' = Some(keyfile.content)
    /\ io' = io \cup {"key_read"}
    /\ pc' = "client"
    /\ UNCHANGED <<env, runs, keyfile, umask, prompted_key, argv, args,
                   oldmask, key_line, pending, pb, device, arg, data_type,
                   file_data, calls, attempts, exit, diag>>

\* no file: the prompt, and the line it reads
GetApiKeyPrompt ==
    /\ pc = "get_api_key"
    /\ keyfile = None
    /\ \E line \in KeyLines :
        /\ key_line' = Some(line)
        /\ api_key' = Some(key_of_line(line))
    /\ io' = io \cup {"key_prompt"}
    /\ pc' = "private_files"
    /\ UNCHANGED <<env, runs, keyfile, umask, prompted_key, argv, args,
                   oldmask, pending, pb, device, arg, data_type, file_data,
                   calls, attempts, exit, diag>>

\* no file, and the prompt meets the end of its input
GetApiKeyEOF ==
    /\ pc = "get_api_key"
    /\ keyfile = None
    /\ io' = io \cup {"key_prompt"}
    /\ Raise(Exception("EOFError", "read_line"))
    /\ UNCHANGED <<env, runs, keyfile, umask, prompted_key, argv, args,
                   oldmask, api_key, key_line, pending, pb, device, arg,
                   data_type, file_data, calls, attempts>>

\* private_files(): oldmask = os.umask(0o77)
PrivateFilesEnter ==
    /\ pc = "private_files"
    /\ oldmask' = Some(umask)
    /\ umask' = PRIVATE_MASK
    /\ pc' = "open"
    /\ UNCHANGED <<env, runs, keyfile, prompted_key, argv, args, api_key,
                   key_line, pending, pb, device, arg, data_type, file_data,
                   calls, io, attempts, exit, diag>>

\* open(KEY_PATH, "w"): the file is created under the mask in force, or the
\* open fails
OpenKeyFile ==
    /\ pc = "open"
    /\ \/ /\ keyfile' = [content |-> << >>, mode |-> CreatedMode(umask)]
          /\ io' = io \cup {"key_create"}
          /\ pc' = "write"
          /\ UNCHANGED pending
       \/ /\ pending' = Exception("IOError", "open")
          /\ pc' = "private_files_exit"
          /\ UNCHANGED <<keyfile, io>>
    /\ UNCHANGED <<env, runs, umask, prompted_key, argv, args, oldmask,
                   api_key, key_line, pb, device, arg, data_type, file_data,
                   calls, attempts, exit, diag>>

\* api_file.write(api_key), or its failure
WriteKeyFile ==
    /\ pc = "write"
    /\ \/ /\ keyfile' = [keyfile EXCEPT !.content = api_key.val]
          /\ UNCHANGED pending
       \/ /\ pending' = Exception("IOError", "write")
          /\ UNCHANGED keyfile
    /\ pc' = "private_files_exit"
    /\ UNCHANGED <<env, runs, umask, prompted_key, argv, args, oldmask,
                   api_key, key_line, pb, device, arg, data_type, file_data,
                   calls, io, attempts, exit, diag>>

\* the mask private_files leaves behind: its finally clause runs on the way
\* out of the with block, whether the block failed or not
private_files_exit_unguarded(old, current, failed) ==
    IF failed THEN current ELSE old
private_files_exit(old, current, failed) == old

\* the end of the with block: the mask is put back, and then either the
\* key is returned or the failure goes on to the caller
PrivateFilesExit ==
    /\ pc = "private_files_exit"
    /\ umask' = private_files_exit(oldmask.val, umask, pending /= None)
    /\ IF pending = None
       THEN /\ pc' = "client"
            /\ prompted_key' = key_line
            /\ UNCHANGED <<exit, diag>>
       ELSE /\ Raise(pending)
            /\ UNCHANGED prompted_key
    /\ UNCHANGED <<env, runs, keyfile, argv, args, oldmask, api_key,
                   key_line, pending, pb, device, arg, data_type, file_data,
                   calls, io, attempts>>

\* ------------------------------------------- the client and its wrappers
\* the methods main() replaces by raise_for_status(method)
WRAPPED_METHODS == {"push_file", "upload_file", "push_link", "push_note"}

\* the failure payloads of the API
ErrorPayloads == {[error |-> "invalid_access_token"], [error |-> "too_big"]}

\* what the API answers to a call: a success flag and a payload
ApiResults(op, params) ==
    {[success |-> FALSE, data |-> e] : e \in ErrorPayloads}
        \cup {[success |-> TRUE,
               data |-> IF op = "upload_file"
                        THEN [file_name |-> params.file_name,
                              file_type |-> "text/plain",
                              file_url |-> "https://dl.pushbulletusercontent.com/1"]
                        ELSE [iden |-> "push1"]]}

\* wrapper(*args, **kwargs): the payload of a success, the exception of a
\* failure
raise_for_status_unchecked(f, result) ==
    [raised |-> FALSE, exc |-> None, value |-> result.data]
raise_for_status(f, result) ==
    IF ~result.success
    THEN [raised |-> TRUE,
          exc |-> [kind |-> "exception", type |-> "PushbulletException",
                   op |-> f, payload |-> result.data],
          value |-> None]
    ELSE [raised |-> FALSE, exc |-> None, value |-> result.data]

\* pb = PushBullet(api_key), and the loop that wraps its methods
Client ==
    /\ pc = "client"
    /\ pb' = [api_key |-> api_key.val, wrapped |-> WRAPPED_METHODS]
    /\ pc' = "resolve"
    /\ UNCHANGED <<env, runs, keyfile, umask, prompted_key, argv, args,
                   oldmask, api_key, key_line, pending, device, arg,
                   data_type, file_data, calls, io, attempts, exit, diag>>

\* ------------------------------------------------- resolving the device
\* {d.nickname: d for d in pb.devices}: of two devices of one nickname the
\* later one stays
devices_by_names(devs) ==
    [n \in {devs[i].nickname : i \in DOMAIN devs} |->
        LET last == CHOOSE i \in DOMAIN devs :
                        /\ devs[i].nickname = n
                        /\ \A j \in DOMAIN devs : devs[j].nickname = n => j <= i
        IN  devs[last]]

\* the truth value of args.device in "elif args.device:"
Truthy(name) == name /= None /\ name.val /= ""

\* main(), from "if not args.all:" to the end of the device lookup
resolve_checking_devices_first(a, devs) ==
    IF Len(devs) < 1 THEN [kind |-> "no_devices", listed |-> TRUE]
    ELSE IF a.all THEN [kind |-> "unspecified", listed |-> TRUE]
    ELSE IF a.interactive THEN [kind |-> "prompt", listed |-> TRUE]
    ELSE IF Truthy(a.device)
         THEN IF a.device.val \notin DOMAIN devices_by_names(devs)
              THEN [kind |-> "unknown", listed |-> TRUE]
              ELSE [kind |-> "found", listed |-> TRUE]
         ELSE [kind |-> "unspecified", listed |-> TRUE]
resolve(a, devs) ==
    IF a.all THEN [kind |-> "unspecified", listed |-> FALSE]
    ELSE IF Len(devs) < 1 THEN [kind |-> "no_devices", listed |-> TRUE]
    ELSE IF a.interactive THEN [kind |-> "prompt", listed |-> TRUE]
    ELSE IF Truthy(a.device)
         THEN IF a.device.val \notin DOMAIN devices_by_names(devs)
              THEN [kind |-> "unknown", listed |-> TRUE]
              ELSE [kind |-> "found", listed |-> TRUE]
         ELSE [kind |-> "unspecified", listed |-> TRUE]

Resolve ==
    /\ pc = "resolve"
    /\ LET r == resolve(args, devices)
       IN  /\ io' = IF r.listed THEN io \cup {"device_list"} ELSE io
           /\ CASE r.kind = "no_devices" ->
                     /\ Return(1, [kind |-> "no_devices"])
                     /\ UNCHANGED device
                [] r.kind = "unknown" ->
                     /\ Return(1, [kind |-> "unknown_device",
                                   name |-> args.device.val,
                                   available |-> DOMAIN devices_by_names(devices)])
                     /\ UNCHANGED device
                [] r.kind = "found" ->
                     /\ device' = devices_by_names(devices)[args.device.val]
                     /\ pc' = "message"
                     /\ UNCHANGED <<exit, diag>>
                [] r.kind = "prompt" ->
                     /\ pc' = "prompt_device"
                     /\ UNCHANGED <<device, exit, diag>>
                [] OTHER ->
                     /\ pc' = "message"
                     /\ UNCHANGED <<device, exit, diag>>
    /\ UNCHANGED <<env, runs, keyfile, umask, prompted_key, argv, args,
                   oldmask, api_key, key_line, pending, pb, arg, data_type,
                   file_data, calls, attempts>>

\* ---------------------------------------------------------- _prompt_device
\* one turn of the loop under Python 2: raw_input, strip, int, the range test
PromptDeviceAnswer ==
    /\ pc = "prompt_device"
    /\ py2
    /\ io' = io \cup {"device_prompt"}
    /\ \E input \in PromptInputs :
        LET choice == int(strip(input))
        IN  IF choice.ok /\ 0 <= choice.value /\ choice.value < Len(devices)
            THEN /\ device' = devices[choice.value + 1]
                 /\ pc' = "message"
                 /\ UNCHANGED attempts
            ELSE /\ attempts' = IF attempts < MaxAttempts
                                THEN attempts + 1 ELSE attempts
                 /\ UNCHANGED <<device, pc>>
    /\ UNCHANGED <<env, runs, keyfile, umask, prompted_key, argv, args,
                   oldmask, api_key, key_line, pending, pb, arg, data_type,
                   file_data, calls, exit, diag>>

\* raw_input at the end of its input
PromptDeviceEOF ==
    /\ pc = "prompt_device"
    /\ py2
    /\ io' = io \cup {"device_prompt"}
    /\ Raise(Exception("EOFError", "raw_input"))
    /\ UNCHANGED <<env, runs, keyfile, umask, prompted_key, argv, args,
                   oldmask, api_key, key_line, pending, pb, device, arg,
                   data_type, file_data, calls, attempts>>

\* Python 3 has no raw_input: the name is looked up when the loop first
\* calls it
PromptDeviceNameError ==
    /\ pc = "prompt_device"
    /\ ~py2
    /\ Raise(Exception("NameError", "raw_input"))
    /\ UNCHANGED <<env, runs, keyfile, umask, prompted_key, argv, args,
                   oldmask, api_key, key_line, pending, pb, device, arg,
                   data_type, file_data, calls, io, attempts>>

\* ------------------------------------------------------------ the message
_data_type_url_first(argument) ==
    IF URL_RE_search(argument) THEN "url"
    ELSE IF argument \in ExistingFiles THEN "file"
    ELSE "text"
_data_type(argument) ==
    IF argument \in ExistingFiles THEN "file"
    ELSE IF URL_RE_search(argument) THEN "url"
    ELSE "text"

\* no message word: standard input, read whole, is a note
ReadStdin ==
    /\ pc = "message"
    /\ args.msg = << >>
    /\ \E content \in StdinChoices : arg' = Some(content)
    /\ data_type' = Some("text")
    /\ io' = io \cup {"stdin"}
    /\ pc' = "push"
    /\ UNCHANGED <<env, runs, keyfile, umask, prompted_key, argv, args,
                   oldmask, api_key, key_line, pending, pb, device,
                   file_data, calls, attempts, exit, diag>>

\* the message words, joined and classified
ClassifyArgument ==
    /\ pc = "message"
    /\ args.msg /= << >>
    /\ arg' = Some(join(args.msg))
    /\ data_type' = Some(_data_type(join(args.msg)))
    /\ io' = io \cup {"isfile"}
    /\ pc' = "push"
    /\ UNCHANGED <<env, runs, keyfile, umask, prompted_key, argv, args,
                   oldmask, api_key, key_line, pending, pb, device,
                   file_data, calls, attempts, exit, diag>>

\* -------------------------------------------------------------------- _push
EmptyDict == [k \in {} |-> None]

\* data = {}; if device is not None: data["device"] = device
push_data_without_device(dev) == EmptyDict
push_data(dev) == IF dev /= None THEN [device |-> dev] ELSE EmptyDict

\* data.update(file_data); pb.push_file(**data)
push_file_params_without_data(data, upload) == upload
push_file_params(data, upload) == upload @@ data

\* pb.push_link(title=raw_data, url=raw_data, **data)
push_link_params(data, raw_data) ==
    [title |-> raw_data, url |-> raw_data] @@ data

\* pb.push_note(title="Note", body=raw_data, **data)
push_note_params(data, raw_data) ==
    [title |-> Note, body |-> raw_data] @@ data

Called(op, params, result) ==
    Append(calls, [op |-> op, params |-> params,
                   success |-> result.success, data |-> result.data])

\* a push of one call, and "return 0" behind it
PushOnce(op, params) ==
    /\ op \in pb.wrapped
    /\ \E result \in ApiResults(op, params) :
        LET r == raise_for_status(op, result)
        IN  /\ calls' = Called(op, params, result)
            /\ IF r.raised THEN Raise(r.exc) ELSE Return(0, None)
    /\ UNCHANGED <<env, runs, keyfile, umask, prompted_key, argv, args,
                   oldmask, api_key, key_line, pending, pb, device, arg,
                   data_type, file_data, io, attempts>>

\* the file branch, first half: open(raw_data, "rb") and pb.upload_file
PushUpload ==
    /\ pc = "push"
    /\ data_type.val = "file"
    /\ "upload_file" \in pb.wrapped
    /\ LET params == [f |-> arg.val, file_name |-> arg.val]
       IN  \E result \in ApiResults("upload_file", params) :
            LET r == raise_for_status("upload_file", result)
            IN  /\ calls' = Called("upload_file", params, result)
                /\ IF r.raised
                   THEN /\ Raise(r.exc)
                        /\ UNCHANGED file_data
                   ELSE /\ file_data' = r.value
                        /\ pc' = "push_file"
                        /\ UNCHANGED <<exit, diag>>
    /\ io' = io \cup {"open_rb"}
    /\ UNCHANGED <<env, runs, keyfile, umask, prompted_key, argv, args,
                   oldmask, api_key, key_line, pending, pb, device, arg,
                   data_type, attempts>>

\* the file branch when the file cannot be opened for reading
PushOpenFails ==
    /\ pc = "push"
    /\ data_type.val = "file"
    /\ io' = io \cup {"open_rb"}
    /\ Raise(Exception("IOError", "open_rb"))
    /\ UNCHANGED <<env, runs, keyfile, umask, prompted_key, argv, args,
                   oldmask, api_key, key_line, pending, pb, device, arg,
                   data_type, file_data, calls, attempts>>

\* the file branch, second half
PushFile ==
    /\ pc = "push_file"
    /\ PushOnce("push_file", push_file_params(push_data(device), file_data))

PushLink ==
    /\ pc = "push"
    /\ data_type.val = "url"
    /\ PushOnce("push_link", push_link_params(push_data(device), arg.val))

PushNote ==
    /\ pc = "push"
    /\ data_type.val \notin {"file", "url"}
    /\ PushOnce("push_note", push_note_params(push_data(device), arg.val))

\* ------------------------------------------------- the next invocation
\* a new process in the same environment: the credential file stays, the
\* mask is the shell's again
NewRun ==
    /\ pc = "done"
    /\ runs < MaxRuns
    /\ runs' = runs + 1
    /\ umask' = umask0
    /\ argv' \in ArgvChoices
    /\ pc' = "parse"
    /\ args' = None
    /\ oldmask' = None
    /\ api_key' = None
    /\ key_line' = None
    /\ pending' = None
    /\ pb' = None
    /\ device' = None
    /\ arg' = None
    /\ data_type' = None
    /\ file_data' = None
    /\ calls' = << >>
    /\ io' = {}
    /\ attempts' = 0
    /\ exit' = None
    /\ diag' = None
    /\ UNCHANGED <<env, keyfile, prompted_key>>

Next ==
    \/ ParseArgs
    \/ GetApiKeyRead
    \/ GetApiKeyPrompt
    \/ GetApiKeyEOF
    \/ PrivateFilesEnter
    \/ OpenKeyFile
    \/ WriteKeyFile
    \/ PrivateFilesExit
    \/ Client
    \/ Resolve
    \/ PromptDeviceAnswer
    \/ PromptDeviceEOF
    \/ PromptDeviceNameError
    \/ ReadStdin
    \/ ClassifyArgument
    \/ PushUpload
    \/ PushOpenFails
    \/ PushFile
    \/ PushLink
    \/ PushNote
    \/ NewRun

Spec == Init /\ [][Next]_vars

\* ---------------------------------------------------------- properties
PUSH_OPS == {"push_note", "push_link", "push_file"}
Returned(status) == exit = [how |-> "return", status |-> status]
Raised == exit = [how |-> "raise"]
CallOps == [i \in DOMAIN calls |-> calls[i].op]

\* C1: a remote call whose result has success = FALSE is the last call of
\* the run, and the run ends there by raising a PushbulletException that
\* carries the name of the operation and the payload of the failure; it
\* never ends by "return 0".
FailedCallIsFatal ==
    \A i \in DOMAIN calls :
        ~calls[i].success =>
            /\ i = Len(calls)
            /\ pc = "done"
            /\ Raised
            /\ ~Returned(0)
            /\ diag = [kind |-> "exception", type |-> "PushbulletException",
                       op |-> calls[i].op, payload |-> calls[i].data]

\* a push_file that fails behind a successful upload_file
FailedCallIsFatalWitness ==
    /\ Len(calls) = 2
    /\ calls[2].op = "push_file"
    /\ ~calls[2].success
    /\ Raised
    /\ diag.op = "push_file"

\* C2, as stated: the "device" option of a push is the identifier of the
\* resolved device, and is absent when no device is resolved.
DeviceOptionIsIdentifier ==
    \A i \in DOMAIN calls :
        calls[i].op \in PUSH_OPS =>
            IF device /= None
            THEN /\ "device" \in DOMAIN calls[i].params
                 /\ calls[i].params.device = Some(device.iden)
            ELSE "device" \notin DOMAIN calls[i].params

\* C2, as the code has it: the "device" option of a push is the resolved
\* device itself, the object of pb.devices, and is absent when no device is
\* resolved; the note "hi" for the device whose identifier is "dev1" makes
\* one call, push_note with title "Note", body "hi" and that device.
DeviceOptionIsDevice ==
    /\ \A i \in DOMAIN calls :
        calls[i].op \in PUSH_OPS =>
            IF device /= None
            THEN /\ "device" \in DOMAIN calls[i].params
                 /\ calls[i].params.device = device
                 /\ \E d \in DOMAIN devices : devices[d] = device
            ELSE "device" \notin DOMAIN calls[i].params
    /\ (/\ arg = Some(hi)
        /\ data_type = Some("text")
        /\ device /= None
        /\ pc = "done"
        /\ calls /= << >>)
            => /\ Len(calls) = 1
               /\ calls[1].op = "push_note"
               /\ calls[1].params =
                      [title |-> Note, body |-> hi, device |-> device]

DeviceOptionIsDeviceWitness ==
    /\ Returned(0)
    /\ device /= None
    /\ device.iden = "dev1"
    /\ Len(calls) = 1
    /\ calls[1].op = "push_note"
    /\ calls[1].params.body = hi

ABC123_line == <<" ", "A", "B", "C", "1", "2", "3", "\n">>
ABC123 == <<"A", "B", "C", "1", "2", "3">>

\* C4: once a key retrieval that found no credential file has returned, the
\* file holds the line typed at its prompt, trimmed ("ABC123" for the line
\* " ABC123\n"), with the permission bits 0600, and that trimmed string is
\* the key the retrieval returned; from then on the file is not modified, no
\* retrieval prompts again, and each returns that same string.
CredentialRoundTrip ==
    /\ [](prompted_key /= None =>
            /\ keyfile /= None
            /\ keyfile.content = strip(prompted_key.val)
            /\ keyfile.mode = 384
            /\ prompted_key.val = ABC123_line => keyfile.content = ABC123
            /\ pb /= None => pb.api_key = strip(prompted_key.val))
    /\ [][prompted_key /= None =>
            /\ keyfile' = keyfile
            /\ prompted_key' = prompted_key
            /\ "key_prompt" \in io' => "key_prompt" \in io]_vars

\* a second invocation that has read back the key typed in the first
CredentialRoundTripWitness ==
    /\ runs = 2
    /\ prompted_key = Some(ABC123_line)
    /\ io = {"key_read"}
    /\ pb /= None
    /\ pb.api_key = ABC123
    /\ keyfile = [content |-> ABC123, mode |-> 384]

\* C5: the permission mask is 0o77 exactly from the entry of private_files
\* to its exit, with the mask of before kept in oldmask, and is the mask the
\* process started with at every other point, whichever way the with block
\* is left.
UmaskScoped ==
    IF pc \in {"open", "write", "private_files_exit"}
    THEN umask = PRIVATE_MASK /\ oldmask = Some(umask0)
    ELSE umask = umask0

\* the write has failed, and the mask is back
UmaskScopedWitness ==
    /\ Raised
    /\ diag = Exception("IOError", "write")
    /\ oldmask = Some(umask0)
    /\ umask = umask0
    /\ umask0 /= PRIVATE_MASK

GivenCount ==
    (IF argv.all THEN 1 ELSE 0) + (IF argv.interactive THEN 1 ELSE 0)
        + (IF argv.device /= None THEN 1 ELSE 0)

\* C6: parsing succeeds when at most one of --all, --interactive and
\* --device NAME is given and fails when two or more are, and a run whose
\* parsing fails does no I/O: no credential read, prompt or creation, no
\* client, no device listing or prompt, no message read, no remote call.
MutexBeforeIO ==
    /\ pc /= "parse" =>
        /\ GivenCount <= 1 <=> args /= None
        /\ GivenCount >= 2 <=> exit = [how |-> "SystemExit", status |-> 2]
    /\ GivenCount >= 2 =>
        /\ pc \in {"parse", "done"}
        /\ io = {}
        /\ calls = << >>
        /\ api_key = None
        /\ pb = None

MutexBeforeIOWitness ==
    /\ argv.all
    /\ argv.device /= None
    /\ exit = [how |-> "SystemExit", status |-> 2]
    /\ io = {}

\* C7: without --all and with an empty device list, the run ends at the
\* device check with status 1 and the no-devices report, and never reads
\* standard input, classifies a message or issues a call; with --all the
\* devices are not looked at, the run never ends with the no-devices report,
\* and no call carries a "device" option.
NoDevicesStopsRun ==
    /\ (args /= None /\ ~args.all /\ Len(devices) = 0) =>
        /\ pc \in {"get_api_key", "private_files", "open", "write",
                   "private_files_exit", "client", "resolve", "done"}
        /\ (pc = "done" /\ pb /= None) =>
               /\ Returned(1)
               /\ diag = [kind |-> "no_devices"]
        /\ io \cap {"stdin", "isfile", "open_rb", "device_prompt"} = {}
        /\ arg = None
        /\ data_type = None
        /\ calls = << >>
    /\ (args /= None /\ args.all) =>
        /\ "device_list" \notin io
        /\ diag /= [kind |-> "no_devices"]
        /\ device = None
        /\ \A i \in DOMAIN calls : "device" \notin DOMAIN calls[i].params

NoDevicesStopsRunWitness ==
    /\ args /= None
    /\ args.interactive
    /\ Len(devices) = 0
    /\ Returned(1)
    /\ diag = [kind |-> "no_devices"]

\* with --all and no device, the push goes out all the same
AllSkipsDeviceCheckWitness ==
    /\ args /= None
    /\ args.all
    /\ Len(devices) = 0
    /\ Returned(0)
    /\ calls /= << >>

\* the device lookup of --device NAME has been made
NamedLookupDone ==
    /\ args /= None
    /\ args.device /= None
    /\ Len(devices) > 0
    /\ pb /= None
    /\ pc /= "resolve"

NamedLookupHolds ==
    IF \E i \in DOMAIN devices : devices[i].nickname = args.device.val
    THEN /\ device /= None
         /\ device.nickname = args.device.val
         /\ \E i \in DOMAIN devices : devices[i] = device
    ELSE /\ pc = "done"
         /\ Returned(1)
         /\ diag = [kind |-> "unknown_device", name |-> args.device.val,
                    available |->
                        {devices[i].nickname : i \in DOMAIN devices}]
         /\ calls = << >>

\* C8: with --device NAME and a device list that is not empty, the resolved
\* device is one of the list whose nickname is NAME, character for
\* character; when the list has none, the run ends with status 1, reports
\* the nicknames of the list and issues no call; and a run that ends with
\* status 0 has issued a push.
NamedDeviceLookup ==
    /\ NamedLookupDone => NamedLookupHolds
    /\ Returned(0) =>
        /\ calls /= << >>
        /\ calls[Len(calls)].op \in PUSH_OPS

\* the same for every NAME but the empty string, which "elif args.device:"
\* takes for no name at all
NamedDeviceLookupOfNonEmptyName ==
    /\ (NamedLookupDone /\ args.device.val /= "") => NamedLookupHolds
    /\ Returned(0) =>
        /\ calls /= << >>
        /\ calls[Len(calls)].op \in PUSH_OPS

\* "phone" is not "Phone"
NamedDeviceLookupCaseWitness ==
    /\ args /= None
    /\ args.device = Some("phone")
    /\ devices = <<Phone, Tablet>>
    /\ Returned(1)
    /\ diag.kind = "unknown_device"

\* C9: the calls of a run are those of one kind of message, each at most
\* once and in order: push_link, or push_note, or upload_file and then
\* push_file; push_file follows only a successful upload_file and carries
\* what the upload returned merged with the routing options; nothing follows
\* a failed call; and a run that ends with status 0 has made them all.
OneRoundTrip ==
    /\ Len(calls) <= 2
    /\ data_type = None => calls = << >>
    /\ data_type /= None =>
        /\ data_type.val = "url" => CallOps \in {<< >>, <<"push_link">>}
        /\ data_type.val = "text" => CallOps \in {<< >>, <<"push_note">>}
        /\ data_type.val = "file" =>
               CallOps \in {<< >>, <<"upload_file">>,
                            <<"upload_file", "push_file">>}
        /\ Returned(0) => Len(calls) = IF data_type.val = "file" THEN 2 ELSE 1
    /\ \A i \in DOMAIN calls : ~calls[i].success => i = Len(calls)
    /\ Len(calls) = 2 =>
        LET upload == calls[1]
            params == calls[2].params
        IN  /\ upload.success
            /\ DOMAIN params =
                   DOMAIN upload.data
                       \cup (IF device /= None THEN {"device"} ELSE {})
            /\ \A k \in DOMAIN upload.data : params[k] = upload.data[k]
            /\ device /= None => params.device = device
    /\ pc = "push_file" => calls[1].success

\* the push_file of a file for one device fails, and nothing follows it
OneRoundTripWitness ==
    /\ CallOps = <<"upload_file", "push_file">>
    /\ calls[1].success
    /\ ~calls[2].success
    /\ device /= None
    /\ pc = "done"

\* C10: a turn of the device prompt either leaves the program at the prompt
\* with nothing changed, or leaves the prompt with a device of the list as
\* the selection; nothing but the end of the input stream ends the loop
\* otherwise.
PromptLoopEndsOnlyOnChoice ==
    [][pc = "prompt_device" =>
        \/ /\ pc' = "prompt_device"
           /\ UNCHANGED <<env, runs, keyfile, umask, prompted_key, argv,
                          args, oldmask, api_key, key_line, pending, pb,
                          device, arg, data_type, file_data, calls, exit,
                          diag>>
        \/ /\ pc' = "message"
           /\ \E i \in 0..(Len(devices) - 1) : device' = devices[i + 1]
           /\ calls' = calls
        \/ /\ pc' = "done"
           /\ diag' = Exception("EOFError", "raw_input")]_vars

\* the same under Python 2, where raw_input exists
PromptLoopEndsOnlyOnChoicePy2 ==
    [][(py2 /\ pc = "prompt_device") =>
        \/ /\ pc' = "prompt_device"
           /\ UNCHANGED <<env, runs, keyfile, umask, prompted_key, argv,
                          args, oldmask, api_key, key_line, pending, pb,
                          device, arg, data_type, file_data, calls, exit,
                          diag>>
        \/ /\ pc' = "message"
           /\ \E i \in 0..(Len(devices) - 1) : device' = devices[i + 1]
           /\ calls' = calls
        \/ /\ pc' = "done"
           /\ diag' = Exception("EOFError", "raw_input")]_vars

\* still at the prompt after MaxAttempts rejected answers
PromptLoopStillAskingWitness ==
    /\ pc = "prompt_device"
    /\ attempts = MaxAttempts
    /\ device = None
    /\ calls = << >>

====
